---- MODULE Spec2Model ----
(***************************************************************************)
(* The task persistence and mutation engine of tasktracker (tasks.py):     *)
(* the Task record, and the Manager that owns the ordered collection and   *)
(* rewrites the JSON file after every mutation.                            *)
(*                                                                         *)
(* Strings are sequences of one-character strings, so that str.strip and   *)
(* str.lower are computed.  A timestamp is the number of whole seconds     *)
(* that strftime('%Y-%m-%d %H:%M:%S') keeps of the clock; the clock itself *)
(* runs in ticks finer than a second.  uuid4 is a fresh number.            *)
(***************************************************************************)
EXTENDS Integers, Sequences, FiniteSets, TLC

VARIABLES
    store,      \* the content of json_file on disk
    alive,      \* TRUE when a Manager object exists
    tasks,      \* Manager.tasks
    clock,      \* what datetime.now() returns, in ticks
    nextId,     \* the number of uuids generated so far, plus one
    ret,        \* the exception the last call raised and its message
    maxAssigned, \* history: the greatest index add_task has returned so far
    other,      \* the Manager of a second process on the same json_file
    prompt      \* <<i>> while _confirm_delete waits for an answer about the
                \* task with index i, <<>> otherwise

vars == <<store, alive, tasks, clock, nextId, ret, maxAssigned, other, prompt>>

(* ------------------------------ bounds -------------------------------- *)

MaxClock == 2
TicksPerSecond == 2
MaxId == 2
MaxTasks == 3

(* ------------------------------ strings ------------------------------- *)

todo == <<"t", "o", "d", "o">>
in_progress == <<"i", "n", "-", "p", "r", "o", "g", "r", "e", "s", "s">>
done == <<"d", "o", "n", "e">>

UpperCase == <<"A", "B", "C", "D", "E", "F", "G", "H", "I", "J", "K", "L", "M",
               "N", "O", "P", "Q", "R", "S", "T", "U", "V", "W", "X", "Y", "Z">>
LowerCase == <<"a", "b", "c", "d", "e", "f", "g", "h", "i", "j", "k", "l", "m",
               "n", "o", "p", "q", "r", "s", "t", "u", "v", "w", "x", "y", "z">>
Whitespace == {" ", "\t", "\n", "\r"}

\* str.lower, one character
LowerChar(c) ==
    IF \E i \in 1..Len(UpperCase) : UpperCase[i] = c
    THEN LowerCase[CHOOSE i \in 1..Len(UpperCase) : UpperCase[i] = c]
    ELSE c

\* str.lower
lower(s) == [i \in 1..Len(s) |-> LowerChar(s[i])]

RECURSIVE lstrip(_)
lstrip(s) ==
    IF s = <<>> THEN s
    ELSE IF Head(s) \in Whitespace THEN lstrip(Tail(s)) ELSE s

RECURSIVE rstrip(_)
rstrip(s) ==
    IF s = <<>> THEN s
    ELSE IF s[Len(s)] \in Whitespace THEN rstrip(SubSeq(s, 1, Len(s) - 1)) ELSE s

\* str.strip
strip(s) == rstrip(lstrip(s))

\* datetime.now().strftime('%Y-%m-%d %H:%M:%S'): the sub-second part is dropped
strftime(t) == t \div TicksPerSecond

(* ------------------------------- Task --------------------------------- *)


\* Task(description, status): index 0, createdAt now, updatedAt := createdAt
Task(description, status_, id, now) ==
    [description |-> description, status |-> status_, id |-> id, index |-> 0,
     createdAt |-> strftime(now), updatedAt |-> strftime(now)]

\* Python's None where a Task is expected
NoTask ==
    [description |-> <<>>, status |-> <<>>, id |-> 0, index |-> 0,
     createdAt |-> 0, updatedAt |-> 0]

(* ----------------------------- the store ------------------------------ *)

(* The content of json_file.  kind is                                      *)
(*   "absent"       the file does not exist                                *)
(*   "nodir"        neither the file nor its directory exists              *)
(*   "invalid"      text json.load rejects with JSONDecodeError            *)
(*   "array"        a JSON array; recs holds its objects, each a function  *)
(*                  from the keys it has to their values                   *)
(*   "emptyobject"  the JSON text {}                                       *)
(*   "nonarray"     any other JSON value that is not an array of objects   *)
EmptyArray == [kind |-> "array", recs |-> <<>>]

\* dataclasses.asdict(task): every field of the Task, by name
asdict(task) ==
    [description |-> task.description, status |-> task.status, id |-> task.id,
     index |-> task.index, createdAt |-> task.createdAt,
     updatedAt |-> task.updatedAt]

\* save_tasks: the file is rewritten with the array of asdict(task)
save_tasks(ts) ==
    [kind |-> "array", recs |-> [i \in 1..Len(ts) |-> asdict(ts[i])]]

\* FromRecord without line 98: updatedAt keeps the constructor's value
FromRecordWithoutUpdatedAt(r, id, now) ==
    LET task == Task(r.description, r.status, id, now)
    IN  [description |-> task.description,
         status      |-> task.status,
         id          |-> IF "id" \in DOMAIN r THEN r.id ELSE task.id,
         index       |-> IF "index" \in DOMAIN r THEN r.index ELSE task.index,
         createdAt   |-> IF "createdAt" \in DOMAIN r THEN r.createdAt
                         ELSE task.createdAt,
         updatedAt   |-> task.updatedAt]

\* FromRecord with task_data.get('id', ''): a record without id gets the
\* empty id, written here as 0
FromRecordEmptyId(r, id, now) ==
    LET task == Task(r.description, r.status, id, now)
    IN  [description |-> task.description,
         status      |-> task.status,
         id          |-> IF "id" \in DOMAIN r THEN r.id ELSE 0,
         index       |-> IF "index" \in DOMAIN r THEN r.index ELSE task.index,
         createdAt   |-> IF "createdAt" \in DOMAIN r THEN r.createdAt
                         ELSE task.createdAt,
         updatedAt   |-> IF "updatedAt" \in DOMAIN r THEN r.updatedAt
                         ELSE task.updatedAt]

\* the body of load_tasks' for loop: Task(description, status), then each
\* optional key of the record replaces the constructor's default
FromRecord(r, id, now) ==
    LET task == Task(r.description, r.status, id, now)
    IN  [description |-> task.description,
         status      |-> task.status,
         id          |-> IF "id" \in DOMAIN r THEN r.id ELSE task.id,
         index       |-> IF "index" \in DOMAIN r THEN r.index ELSE task.index,
         createdAt   |-> IF "createdAt" \in DOMAIN r THEN r.createdAt
                         ELSE task.createdAt,
         updatedAt   |-> IF "updatedAt" \in DOMAIN r THEN r.updatedAt
                         ELSE task.updatedAt]

\* the for loop of load_tasks over the records left, acc being self.tasks;
\* a record without description or status raises KeyError and ends the loop
RECURSIVE LoadRecords(_, _, _, _)
LoadRecords(recs, acc, id, now) ==
    IF recs = <<>> THEN [tasks |-> acc, nextId |-> id, exc |-> "none"]
    ELSE LET r == Head(recs)
         IN  IF ~({"description", "status"} \subseteq DOMAIN r)
             THEN [tasks |-> acc, nextId |-> id, exc |-> "KeyError"]
             ELSE LoadRecords(Tail(recs), Append(acc, FromRecord(r, id, now)),
                              IF "id" \in DOMAIN r THEN id ELSE id + 1, now)

\* load_tasks without the except clause: JSONDecodeError leaves load_tasks
\* and the file stays as it is
LoadedWithoutRecovery(st, id, now) ==
    CASE st.kind \in {"absent", "nodir"} ->
            [tasks |-> <<>>, nextId |-> id, exc |-> "none", store |-> EmptyArray]
      [] st.kind = "invalid" ->
            [tasks |-> <<>>, nextId |-> id, exc |-> "JSONDecodeError",
             store |-> st]
      [] st.kind = "emptyobject" ->
            [tasks |-> <<>>, nextId |-> id, exc |-> "none", store |-> st]
      [] st.kind = "nonarray" ->
            [tasks |-> <<>>, nextId |-> id, exc |-> "TypeError", store |-> st]
      [] OTHER ->
            LET l == LoadRecords(st.recs, <<>>, id, now)
            IN  [tasks |-> l.tasks, nextId |-> l.nextId, exc |-> l.exc,
                 store |-> st]

\* load_tasks without lines 77-80: a file that does not exist is not created
LoadedWithoutCreation(st, id, now) ==
    CASE st.kind \in {"absent", "nodir"} ->
            [tasks |-> <<>>, nextId |-> id, exc |-> "none", store |-> st]
      [] st.kind = "invalid" ->
            [tasks |-> <<>>, nextId |-> id, exc |-> "none", store |-> EmptyArray]
      [] st.kind = "emptyobject" ->
            [tasks |-> <<>>, nextId |-> id, exc |-> "none", store |-> st]
      [] st.kind = "nonarray" ->
            [tasks |-> <<>>, nextId |-> id, exc |-> "TypeError", store |-> st]
      [] OTHER ->
            LET l == LoadRecords(st.recs, <<>>, id, now)
            IN  [tasks |-> l.tasks, nextId |-> l.nextId, exc |-> l.exc,
                 store |-> st]

\* load_tasks: the collection, the file and the exception it ends with
Loaded(st, id, now) ==
    CASE st.kind \in {"absent", "nodir"} ->
            [tasks |-> <<>>, nextId |-> id, exc |-> "none", store |-> EmptyArray]
      [] st.kind = "invalid" ->
            [tasks |-> <<>>, nextId |-> id, exc |-> "none", store |-> EmptyArray]
      [] st.kind = "emptyobject" ->
            [tasks |-> <<>>, nextId |-> id, exc |-> "none", store |-> st]
      [] st.kind = "nonarray" ->
            [tasks |-> <<>>, nextId |-> id, exc |-> "TypeError", store |-> st]
      [] OTHER ->
            LET l == LoadRecords(st.recs, <<>>, id, now)
            IN  [tasks |-> l.tasks, nextId |-> l.nextId, exc |-> l.exc,
                 store |-> st]

(* ------------------------------ results ------------------------------- *)

(* What a call of a Manager method does: the exception it raises ("none"   *)
(* when it returns) with its message and the index the message names, the  *)
(* Task it returns, and self.tasks when it ends.                           *)
Returns(task, ts) ==
    [exc |-> "none", msg |-> "", named |-> 0, task |-> task, tasks |-> ts]

Raises(exc, msg, named, ts) ==
    [exc |-> exc, msg |-> msg, named |-> named, task |-> NoTask, tasks |-> ts]

(* ------------------------ mutation operations ------------------------- *)

ValidStatuses == {todo, in_progress, done}

\* add_task's check of the description
DescriptionOk(description) == strip(description) # <<>>

\* StatusOk without status = status.lower()
StatusOkCaseSensitive(status_) == status_ \in ValidStatuses

\* add_task's check of the status, after status = status.lower()
StatusOk(status_) == lower(status_) \in ValidStatuses

\* NextIndex without the increment of line 148
NextIndexNoIncrement(ts) == IF ts # <<>> THEN ts[Len(ts)].index ELSE 0

\* add_task's index: the last task's index plus one, 1 for an empty list
NextIndex(ts) == (IF ts # <<>> THEN ts[Len(ts)].index ELSE 0) + 1

\* Position falling through to the loop variable's last value: the last task
PositionOrLast(ts, task_index) ==
    IF \E i \in 1..Len(ts) : ts[i].index = task_index
    THEN CHOOSE i \in 1..Len(ts) :
            /\ ts[i].index = task_index
            /\ \A j \in 1..(i - 1) : ts[j].index # task_index
    ELSE Len(ts)

\* the position of the first task whose index is task_index, 0 when there is
\* none: the scan of delete_task and of update_task
Position(ts, task_index) ==
    IF \E i \in 1..Len(ts) : ts[i].index = task_index
    THEN CHOOSE i \in 1..Len(ts) :
            /\ ts[i].index = task_index
            /\ \A j \in 1..(i - 1) : ts[j].index # task_index
    ELSE 0

\* list.pop() in place of list.pop(i): the last task goes
PopLast(ts, i) == SubSeq(ts, 1, Len(ts) - 1)

\* list.pop(i)
Pop(ts, i) == [j \in 1..(Len(ts) - 1) |-> IF j < i THEN ts[j] ELSE ts[j + 1]]

\* update_task assigning both fields whether or not kwargs holds them: a
\* field that was not provided is reset to its initial value
UpdatedBothFields(task, kwargs, now) ==
    [task EXCEPT
        !.description = IF "description" \in DOMAIN kwargs
                        THEN kwargs.description ELSE <<>>,
        !.status = IF "status" \in DOMAIN kwargs
                   THEN lower(kwargs.status) ELSE todo,
        !.updatedAt = strftime(now)]

\* update_task with no-op detection: updatedAt is refreshed only when kwargs
\* holds a field
UpdatedWhenChanged(task, kwargs, now) ==
    [task EXCEPT
        !.description = IF "description" \in DOMAIN kwargs
                        THEN kwargs.description ELSE @,
        !.status = IF "status" \in DOMAIN kwargs
                   THEN lower(kwargs.status) ELSE @,
        !.updatedAt = IF DOMAIN kwargs = {} THEN @ ELSE strftime(now)]

\* update_task with done as a terminal status: a task that is done keeps
\* its status
UpdatedDoneIsFinal(task, kwargs, now) ==
    [task EXCEPT
        !.description = IF "description" \in DOMAIN kwargs
                        THEN kwargs.description ELSE @,
        !.status = IF "status" \in DOMAIN kwargs /\ @ # done
                   THEN lower(kwargs.status) ELSE @,
        !.updatedAt = strftime(now)]

\* the assignments of update_task to the task it found
Updated(task, kwargs, now) ==
    [task EXCEPT
        !.description = IF "description" \in DOMAIN kwargs
                        THEN kwargs.description ELSE @,
        !.status = IF "status" \in DOMAIN kwargs
                   THEN lower(kwargs.status) ELSE @,
        !.updatedAt = strftime(now)]

\* add_task with self.tasks.insert(0, task): the new task goes first
add_task_inserting_first(ts, description, status_, id, now) ==
    IF ~DescriptionOk(description)
    THEN Raises("ValueError", "Task description cannot be empty", 0, ts)
    ELSE IF ~StatusOk(status_)
    THEN Raises("ValueError", "Invalid status", 0, ts)
    ELSE LET task == [Task(description, lower(status_), id, now)
                         EXCEPT !.index = NextIndex(ts)]
         IN  Returns(task, <<task>> \o ts)

\* Manager.add_task on the collection ts, uuid4 returning id
add_task(ts, description, status_, id, now) ==
    IF ~DescriptionOk(description)
    THEN Raises("ValueError", "Task description cannot be empty", 0, ts)
    ELSE IF ~StatusOk(status_)
    THEN Raises("ValueError", "Invalid status", 0, ts)
    ELSE LET task == [Task(description, lower(status_), id, now)
                         EXCEPT !.index = NextIndex(ts)]
         IN  Returns(task, Append(ts, task))

\* Manager.delete_task
delete_task(ts, task_index) ==
    LET i == Position(ts, task_index)
    IN  IF i = 0
        THEN Raises("ValueError", "No task found with index", task_index, ts)
        ELSE Returns(ts[i], Pop(ts, i))

\* Manager.update_task
update_task(ts, task_index, kwargs, now) ==
    LET i == Position(ts, task_index)
    IN  IF i = 0
        THEN Raises("ValueError", "No task found with index", task_index, ts)
        ELSE LET task == Updated(ts[i], kwargs, now)
             IN  Returns(task, [ts EXCEPT ![i] = task])

\* Manager.status looking for the task before it looks at the command: an
\* absent index is reported first
statusIndexFirst(ts, task_index, command, now) ==
    IF Position(ts, task_index) = 0
    THEN Raises("ValueError", "No task found with index", task_index, ts)
    ELSE CASE command = "mark-done" ->
                 update_task(ts, task_index, [status |-> done], now)
           [] command = "mark-todo" ->
                 update_task(ts, task_index, [status |-> todo], now)
           [] command = "mark-in-progress" ->
                 update_task(ts, task_index, [status |-> in_progress], now)
           [] OTHER -> Raises("ValueError", "Invalid status command", 0, ts)

\* Manager.status
status(ts, task_index, command, now) ==
    CASE command = "mark-done" ->
            update_task(ts, task_index, [status |-> done], now)
      [] command = "mark-todo" ->
            update_task(ts, task_index, [status |-> todo], now)
      [] command = "mark-in-progress" ->
            update_task(ts, task_index, [status |-> in_progress], now)
      [] OTHER -> Raises("ValueError", "Invalid status command", 0, ts)

\* list_by_arg comparing the status with the filter in lower case
RECURSIVE list_by_arg_ignoring_case(_, _)
list_by_arg_ignoring_case(ts, status_filter) ==
    IF ts = <<>> THEN <<>>
    ELSE IF lower(Head(ts).status) = lower(status_filter)
         THEN <<Head(ts)>> \o list_by_arg_ignoring_case(Tail(ts), status_filter)
         ELSE list_by_arg_ignoring_case(Tail(ts), status_filter)

\* Manager.list_by_arg: the list comprehension over self.tasks; an empty
\* result is returned as a new empty list
RECURSIVE list_by_arg(_, _)
list_by_arg(ts, status_filter) ==
    IF ts = <<>> THEN <<>>
    ELSE IF Head(ts).status = status_filter
         THEN <<Head(ts)>> \o list_by_arg(Tail(ts), status_filter)
         ELSE list_by_arg(Tail(ts), status_filter)

(* ------------------------------ inputs -------------------------------- *)

\* descriptions given to add_task: empty, whitespace only, and plain
DescArgs == {<<>>, <<" ">>, <<"a">>}

bogus == <<"b", "o", "g", "u", "s">>

\* status arguments: one in lower case, one in mixed case, one outside the set
StatusArgs == {todo, <<"D", "o", "n", "e">>, bogus}

\* task_index arguments: every index add_task can assign, and one more
IndexArgs == 1..(MaxId + 1)

\* the second argument of Manager.status
Commands == {"mark-done", "mark-todo", "mark-in-progress", "mark-later"}

\* **kwargs of update_task: no key, either key, both keys
Kwargs ==
    { <<>>,
      [description |-> <<>>],
      [status |-> <<"D", "o", "n", "e">>],
      [status |-> bogus],
      [description |-> <<"a">>, status |-> todo] }

\* status_filter arguments of list_by_arg: two statuses and one in mixed case
Filters == {todo, done, <<"D", "o", "n", "e">>}

(* ------------------------------ actions ------------------------------- *)

\* time passes
Tick ==
    /\ clock < MaxClock
    /\ clock' = clock + 1
    /\ UNCHANGED <<store, alive, tasks, nextId, ret, maxAssigned, other, prompt>>

\* Manager(json_file): tasks = [], then load_tasks; an exception leaves no
\* Manager object
Construct ==
    LET l == Loaded(store, nextId, clock)
    IN  /\ l.nextId <= MaxId + 1
        /\ store' = l.store
        /\ alive' = (l.exc = "none")
        /\ tasks' = IF l.exc = "none" THEN l.tasks ELSE <<>>
        /\ nextId' = l.nextId
        /\ ret' = [exc |-> l.exc, msg |-> ""]
        /\ UNCHANGED <<clock, maxAssigned, other, prompt>>

\* manager.load_tasks() on an existing Manager
Load ==
    /\ alive
    /\ LET l == Loaded(store, nextId, clock)
       IN  /\ l.nextId <= MaxId + 1
           /\ store' = l.store
           /\ tasks' = l.tasks
           /\ nextId' = l.nextId
           /\ ret' = [exc |-> l.exc, msg |-> ""]
           /\ UNCHANGED <<alive, clock, maxAssigned, other, prompt>>

\* the end of a mutating call with result r: save_tasks ran when it returned
Finish(r) ==
    /\ tasks' = r.tasks
    /\ store' = IF r.exc = "none" THEN save_tasks(r.tasks) ELSE store
    /\ ret' = [exc |-> r.exc, msg |-> r.msg]

\* manager.add_task(description, status)
Add(description, status_) ==
    /\ alive
    /\ LET r == add_task(tasks, description, status_, nextId, clock)
       IN  /\ r.exc = "none" => (nextId <= MaxId /\ Len(tasks) < MaxTasks)
           /\ Finish(r)
           /\ nextId' = IF r.exc = "none" THEN nextId + 1 ELSE nextId
           /\ maxAssigned' = IF r.exc = "none" /\ r.task.index > maxAssigned
                             THEN r.task.index ELSE maxAssigned
    /\ UNCHANGED <<alive, clock, other, prompt>>

\* manager.delete_task(task_index)
Delete(task_index) ==
    /\ alive
    /\ Finish(delete_task(tasks, task_index))
    /\ UNCHANGED <<alive, clock, nextId, maxAssigned, other, prompt>>

\* manager.update_task(task_index, **kwargs)
Update(task_index, kwargs) ==
    /\ alive
    /\ Finish(update_task(tasks, task_index, kwargs, clock))
    /\ UNCHANGED <<alive, clock, nextId, maxAssigned, other, prompt>>

\* manager.status(task_index, command)
Status(task_index, command) ==
    /\ alive
    /\ Finish(status(tasks, task_index, command, clock))
    /\ UNCHANGED <<alive, clock, nextId, maxAssigned, other, prompt>>

\* manager.list_by_arg(status_filter): it returns a list and assigns nothing
List(status_filter) ==
    /\ alive
    /\ ret' = [exc |-> "none", msg |-> ""]
    /\ UNCHANGED <<store, alive, tasks, clock, nextId, maxAssigned, other, prompt>>

(* --------------------------- specifications --------------------------- *)

Absent == [kind |-> "absent", recs |-> <<>>]

\* no second process has constructed a Manager
NoManager == [alive |-> FALSE, tasks |-> <<>>]

\* no Manager yet; the file is absent or holds an empty array
Init ==
    /\ store \in {Absent, EmptyArray}
    /\ alive = FALSE
    /\ tasks = <<>>
    /\ clock = 0
    /\ nextId = 1
    /\ ret = [exc |-> "none", msg |-> ""]
    /\ maxAssigned = 0
    /\ other = NoManager
    /\ prompt = <<>>

Next ==
    \/ Tick
    \/ Construct
    \/ Load
    \/ \E d \in DescArgs, s \in StatusArgs : Add(d, s)
    \/ \E i \in IndexArgs : Delete(i)
    \/ \E i \in IndexArgs, kw \in Kwargs : Update(i, kw)
    \/ \E i \in IndexArgs, c \in Commands : Status(i, c)
    \/ \E f \in Filters : List(f)

Spec == Init /\ [][Next]_vars

(* A file written by hand or by another program before the first Manager   *)
(* is constructed: records out of index order, a record without its        *)
(* optional keys, a record without description, and files that do not hold *)
(* an array of records.  Hand-written ids are numbers uuid4 never returns. *)
EditedRecord(index, id) ==
    [description |-> <<"a">>, status |-> todo, id |-> id, index |-> index,
     createdAt |-> 0, updatedAt |-> 0]

EditedStores ==
    { Absent,
      [kind |-> "nodir", recs |-> <<>>],
      [kind |-> "invalid", recs |-> <<>>],
      [kind |-> "emptyobject", recs |-> <<>>],
      [kind |-> "nonarray", recs |-> <<>>],
      [kind |-> "array",
       recs |-> <<EditedRecord(2, 102), EditedRecord(1, 101)>>],
      [kind |-> "array",
       recs |-> <<[description |-> <<"a">>, status |-> todo]>>],
      [kind |-> "array",
       recs |-> <<EditedRecord(1, 101), [status |-> todo]>>] }

InitEdited ==
    /\ store \in EditedStores
    /\ alive = FALSE
    /\ tasks = <<>>
    /\ clock = 0
    /\ nextId = 1
    /\ ret = [exc |-> "none", msg |-> ""]
    /\ maxAssigned = 0
    /\ other = NoManager
    /\ prompt = <<>>

\* the task_index arguments on a hand-edited file: 0 is the default index
EditedIndexArgs == 0..MaxId

\* the calls made on a hand-edited file: every operation, fewer arguments
NextEdited ==
    \/ Tick
    \/ Construct
    \/ Load
    \/ \E d \in DescArgs, s \in {todo, bogus} : Add(d, s)
    \/ \E i \in EditedIndexArgs : Delete(i)
    \/ \E i \in EditedIndexArgs, kw \in {<<>>, [status |-> done]} : Update(i, kw)
    \/ \E i \in EditedIndexArgs, c \in {"mark-done", "mark-later"} : Status(i, c)
    \/ \E f \in Filters : List(f)

SpecEdited == InitEdited /\ [][NextEdited]_vars

(* Another program overwrites the file with text that is not JSON while a  *)
(* Manager may hold tasks read from it.                                     *)
Invalid == [kind |-> "invalid", recs |-> <<>>]

Corrupt ==
    /\ store # Invalid
    /\ store' = Invalid
    /\ UNCHANGED <<alive, tasks, clock, nextId, ret, maxAssigned, other, prompt>>

NextCorrupted ==
    \/ NextEdited
    \/ Corrupt

SpecCorrupted == InitEdited /\ [][NextCorrupted]_vars

(* The write of save_tasks fails, or the process is killed.  open(.., 'w')  *)
(* truncates the file and json.dump writes it piece by piece: a write that *)
(* stops on the way leaves an empty or partial text, which is not JSON.    *)

\* a failed write that is rolled back: the collection is as before the call
FinishFailingRolledBack(r, msg) ==
    /\ r.exc = "none"
    /\ tasks' = tasks
    /\ store' \in {store, Invalid}
    /\ ret' = [exc |-> "RuntimeError", msg |-> msg]

\* a call that reached save_tasks with result r, and the write failed: open
\* raised and the file is as it was, or the write stopped after truncation;
\* the exception leaves the call as RuntimeError
FinishFailing(r, msg) ==
    /\ r.exc = "none"
    /\ tasks' = r.tasks
    /\ store' \in {store, Invalid}
    /\ ret' = [exc |-> "RuntimeError", msg |-> msg]

\* manager.add_task(description, status), the write failing
AddFailing(description, status_) ==
    /\ alive
    /\ nextId <= MaxId
    /\ Len(tasks) < MaxTasks
    /\ LET r == add_task(tasks, description, status_, nextId, clock)
       IN  /\ FinishFailing(r, "Failed to add task")
           /\ nextId' = nextId + 1
           /\ maxAssigned' = IF r.task.index > maxAssigned
                             THEN r.task.index ELSE maxAssigned
    /\ UNCHANGED <<alive, clock, other, prompt>>

\* manager.delete_task(task_index), the write failing
DeleteFailing(task_index) ==
    /\ alive
    /\ FinishFailing(delete_task(tasks, task_index), "Error saving tasks")
    /\ UNCHANGED <<alive, clock, nextId, maxAssigned, other, prompt>>

\* manager.update_task(task_index, **kwargs), and manager.status through it,
\* the write failing
UpdateFailing(task_index, kwargs) ==
    /\ alive
    /\ FinishFailing(update_task(tasks, task_index, kwargs, clock),
                     "Error saving tasks")
    /\ UNCHANGED <<alive, clock, nextId, maxAssigned, other, prompt>>

\* the process is killed during a call: at a point where the file is as it
\* was (before save_tasks truncates it, or after the write has ended and
\* the call is one of those above), or between truncation and the end of
\* the write
Killed ==
    /\ alive
    /\ store' \in {store, Invalid}
    /\ alive' = FALSE
    /\ tasks' = <<>>
    /\ ret' = [exc |-> "none", msg |-> ""]
    /\ UNCHANGED <<clock, nextId, maxAssigned, other, prompt>>

\* the calls with one argument each, their writes failing or not
NextStorage ==
    \/ Tick
    \/ Construct
    \/ Load
    \/ Add(<<"a">>, todo)
    \/ \E i \in IndexArgs : Delete(i)
    \/ \E i \in IndexArgs : Update(i, [status |-> done])
    \/ AddFailing(<<"a">>, todo)
    \/ \E i \in IndexArgs : DeleteFailing(i)
    \/ \E i \in IndexArgs : UpdateFailing(i, [status |-> done])
    \/ Killed

SpecStorage == Init /\ [][NextStorage]_vars

(* ------------------------- claim vocabulary --------------------------- *)

\* the indices of the tasks of ts
Indices(ts) == {ts[k].index : k \in 1..Len(ts)}

\* the greatest index in ts, 0 for an empty collection
MaxIndex(ts) ==
    IF ts = <<>> THEN 0
    ELSE CHOOSE m \in Indices(ts) : \A n \in Indices(ts) : n <= m

\* d is empty or consists of whitespace only
Blank(d) == \A k \in 1..Len(d) : d[k] \in Whitespace

\* s and v are the same word when case is ignored
SameIgnoringCase(s, v) ==
    /\ Len(s) = Len(v)
    /\ \A k \in 1..Len(s) : LowerChar(s[k]) = LowerChar(v[k])

\* this step is an add, delete, update or status call that returned
MutationReturned ==
    /\ ret'.exc = "none"
    /\ \/ \E d \in DescArgs, s \in StatusArgs : Add(d, s)
       \/ \E i \in IndexArgs \cup EditedIndexArgs : Delete(i)
       \/ \E i \in IndexArgs \cup EditedIndexArgs, kw \in Kwargs : Update(i, kw)
       \/ \E i \in IndexArgs \cup EditedIndexArgs, c \in Commands : Status(i, c)

\* a Manager constructed on the file at time now holds exactly ts
FreshManagerHolds(ts) ==
    \A now \in clock..MaxClock :
        LET l == Loaded(store, nextId, now)
        IN  l.exc = "none" /\ l.tasks = ts

(* C1: every add returns an index strictly greater than every index       *)
(* assigned before it, so no index is assigned twice, deletes or not.      *)
C1_IndexNeverReused ==
    [][\A d \in DescArgs, s \in StatusArgs :
        (Add(d, s) /\ ret'.exc = "none") =>
            add_task(tasks, d, s, nextId, clock).task.index > maxAssigned
      ]_vars

(* C2: from an absent or empty store, no two tasks of the collection have  *)
(* the same index and every index is a positive integer.                   *)
C2_IndicesUniquePositive ==
    \A i, j \in 1..Len(tasks) :
        /\ tasks[i].index >= 1
        /\ i # j => tasks[i].index # tasks[j].index

\* two tasks in the collection, the second added after the first, and a
\* Manager constructed since
C2_Witness ==
    /\ alive
    /\ Len(tasks) = 2
    /\ tasks[1].id < tasks[2].id
    /\ maxAssigned = 2
    /\ store = save_tasks(tasks)

(* C3: every task's status is one of todo, in-progress, done, whatever     *)
(* status arguments add, update and status were given.                     *)
C3_StatusAlwaysValid ==
    \A i \in 1..Len(tasks) : tasks[i].status \in ValidStatuses

(* C4: every task's description is non-empty, whatever description         *)
(* arguments add and update were given.                                    *)
C4_DescriptionNeverEmpty ==
    \A i \in 1..Len(tasks) : tasks[i].description # <<>>

(* C5: after a successful add, delete, update or status, a fresh Manager    *)
(* constructed on the same file at any later time holds the same tasks in  *)
(* the same order, field for field.                                        *)
C5_RoundTrip ==
    [][MutationReturned => FreshManagerHolds(tasks)']_vars

\* after successful calls the collection holds two tasks, one of them with
\* an updatedAt later than its createdAt, and the file holds them
C5_Witness ==
    /\ alive
    /\ ret.exc = "none"
    /\ Len(tasks) >= 2
    /\ \E i \in 1..Len(tasks) : tasks[i].updatedAt > tasks[i].createdAt
    /\ store = save_tasks(tasks)

(* C6: whenever a Manager exists, the array in the file equals the         *)
(* collection in memory, record for record and in the same order.          *)
C6_StoreEqualsMemory ==
    (alive /\ store.kind = "array") => store.recs = save_tasks(tasks).recs

(* C7: a successful add gives the new task the index 1 + the greatest      *)
(* index in the collection (1 when it is empty) and appends it.            *)
C7_AddUsesTrueMaximum ==
    [][\A d \in DescArgs, s \in StatusArgs :
        (Add(d, s) /\ ret'.exc = "none") =>
            LET r == add_task(tasks, d, s, nextId, clock)
            IN  /\ r.task.index = MaxIndex(tasks) + 1
                /\ tasks' = Append(tasks, r.task)
      ]_vars

(* C8: add fails with a validation error exactly when the description is   *)
(* empty or whitespace only, or the status, case ignored, is none of todo, *)
(* in-progress, done; a failed add changes neither collection nor file.    *)
C8_AddValidation ==
    /\ [](\A d \in DescArgs, s \in StatusArgs :
            LET r == add_task(tasks, d, s, nextId, clock)
            IN  /\ (r.exc = "ValueError")
                     <=> (Blank(d)
                          \/ ~\E v \in ValidStatuses : SameIgnoringCase(s, v))
                /\ r.exc = "ValueError" => r.tasks = tasks)
    /\ [][ret'.msg \in {"Task description cannot be empty", "Invalid status"}
            => (tasks' = tasks /\ store' = store)]_vars

\* an add was refused for its status while the collection held a task
C8_Witness ==
    /\ ret.exc = "ValueError"
    /\ ret.msg = "Invalid status"
    /\ tasks # <<>>

\* the result r of a call is the not-found error naming i, and the
\* collection the call leaves is ts
NotFound(r, i, ts) ==
    /\ r.exc = "ValueError"
    /\ r.msg = "No task found with index"
    /\ r.named = i
    /\ r.tasks = ts

(* C9: delete, update and status (with a valid command) on an index no     *)
(* task has raise the not-found error naming that index and change neither *)
(* the collection nor the file.                                            *)
C9_NotFoundNoEffect ==
    /\ [](\A i \in IndexArgs :
            i \notin Indices(tasks) =>
                /\ NotFound(delete_task(tasks, i), i, tasks)
                /\ \A kw \in Kwargs :
                      NotFound(update_task(tasks, i, kw, clock), i, tasks)
                /\ \A c \in {"mark-done", "mark-todo", "mark-in-progress"} :
                      NotFound(status(tasks, i, c, clock), i, tasks))
    /\ [][ret'.msg = "No task found with index" =>
            (tasks' = tasks /\ store' = store)]_vars

\* a call on an absent index was refused while the collection held two tasks
C9_Witness ==
    /\ ret.msg = "No task found with index"
    /\ Len(tasks) = 2

(* C10: delete of an index some task has removes one task with that index, *)
(* returns it, and leaves the other tasks as they were and in their order. *)
C10_DeleteFrame ==
    [][\A i \in EditedIndexArgs :
        (Delete(i) /\ i \in Indices(tasks)) =>
            \E k \in 1..Len(tasks) :
                /\ tasks[k].index = i
                /\ ret'.exc = "none"
                /\ delete_task(tasks, i).task = tasks[k]
                /\ Len(tasks') = Len(tasks) - 1
                /\ \A j \in 1..Len(tasks') :
                      tasks'[j] = IF j < k THEN tasks[j] ELSE tasks[j + 1]
      ]_vars

\* the middle one of three tasks was deleted: the first and the last stay
C10_Witness ==
    /\ Len(tasks) = 2
    /\ tasks[1].id = 102
    /\ tasks[2].id = 1
    /\ store = save_tasks(tasks)

(* C11: a successful update of index i changes, on the task with that      *)
(* index, only the fields it was given and updatedAt; the task's id, index *)
(* and createdAt, the fields not given, every other task and the order of  *)
(* the collection stay as they were.                                       *)
C11_UpdateFrame ==
    \A i \in IndexArgs, kw \in Kwargs :
        i \in Indices(tasks) =>
            LET r == update_task(tasks, i, kw, clock)
            IN  /\ r.exc = "none"
                /\ Len(r.tasks) = Len(tasks)
                /\ \E k \in 1..Len(tasks) :
                      /\ tasks[k].index = i
                      /\ r.task = r.tasks[k]
                      /\ r.tasks[k].id = tasks[k].id
                      /\ r.tasks[k].index = tasks[k].index
                      /\ r.tasks[k].createdAt = tasks[k].createdAt
                      /\ "description" \notin DOMAIN kw =>
                            r.tasks[k].description = tasks[k].description
                      /\ "status" \notin DOMAIN kw =>
                            r.tasks[k].status = tasks[k].status
                      /\ \A j \in 1..Len(tasks) :
                            j # k => r.tasks[j] = tasks[j]

\* an update gave the second of two tasks another status, later than the
\* second it was created in, and left its description and the first task
C11_Witness ==
    /\ ret.exc = "none"
    /\ Len(tasks) = 2
    /\ tasks[1].status = todo
    /\ tasks[1].updatedAt = tasks[1].createdAt
    /\ tasks[2].status = done
    /\ tasks[2].description = <<"a">>
    /\ tasks[2].updatedAt > tasks[2].createdAt

\* task t of this state is in the next state with the same id, index and
\* createdAt
Kept(t) ==
    \E j \in 1..Len(tasks') :
        /\ tasks'[j].id = t.id
        /\ tasks'[j].index = t.index
        /\ tasks'[j].createdAt = t.createdAt

(* C12: a task keeps its id, index and createdAt from the state it first   *)
(* appears in until it is deleted: every step other than its own delete    *)
(* leaves a task with the same three values, a reload from the file        *)
(* included, also when the record in the file lacks some of these keys.    *)
C12_IdentityStable ==
    [][\A k \in 1..Len(tasks) :
          \/ Kept(tasks[k])
          \/ \E i \in IndexArgs \cup EditedIndexArgs :
                Delete(i) /\ ret'.exc = "none" /\ tasks[k].index = i
      ]_vars

\* the first task of ts with index i
TaskAt(ts, i) == ts[CHOOSE k \in 1..Len(ts) :
                      /\ ts[k].index = i
                      /\ \A j \in 1..(k - 1) : ts[j].index # i]

\* the valid commands of status
MarkCommands == {"mark-done", "mark-todo", "mark-in-progress"}

(* C13: with a clock that never goes backwards and an empty store at the   *)
(* start, every task has updatedAt >= createdAt, with equality in the task *)
(* add returns; every successful update (with no field too) and status     *)
(* call sets updatedAt to the current time, not before the value it had,   *)
(* and the file holds the collection when the call has returned.           *)
C13_UpdatedAtRefreshed ==
    /\ [](/\ \A k \in 1..Len(tasks) : tasks[k].updatedAt >= tasks[k].createdAt
          /\ \A d \in DescArgs, s \in StatusArgs :
                LET r == add_task(tasks, d, s, nextId, clock)
                IN  r.exc = "none" => r.task.updatedAt = r.task.createdAt
          /\ \A i \in IndexArgs :
                i \in Indices(tasks) =>
                    /\ \A kw \in Kwargs :
                          LET r == update_task(tasks, i, kw, clock)
                          IN  /\ r.exc = "none"
                              /\ r.task.updatedAt = strftime(clock)
                              /\ r.task.updatedAt >= TaskAt(tasks, i).updatedAt
                              /\ TaskAt(r.tasks, i) = r.task
                    /\ \A c \in MarkCommands :
                          LET r == status(tasks, i, c, clock)
                          IN  /\ r.exc = "none"
                              /\ r.task.updatedAt = strftime(clock)
                              /\ r.task.updatedAt >= TaskAt(tasks, i).updatedAt
                              /\ TaskAt(r.tasks, i) = r.task)
    /\ [][(alive' /\ ret'.exc = "none") => store' = save_tasks(tasks')]_vars

\* a call that returned left a task with an updatedAt later than its
\* createdAt, and the file holds it
C13_Witness ==
    /\ alive
    /\ ret.exc = "none"
    /\ Len(tasks) = 1
    /\ tasks[1].updatedAt > tasks[1].createdAt
    /\ tasks[1].description = <<"a">>
    /\ tasks[1].status = todo
    /\ store = save_tasks(tasks)

\* the status update_task is given for a valid command of status
StatusOf(c) ==
    CASE c = "mark-done" -> done
      [] c = "mark-todo" -> todo
      [] c = "mark-in-progress" -> in_progress

(* C14: status(i, c) with a valid command has the effect and the result of *)
(* update(i, status = done, todo or in-progress); with any other command   *)
(* it raises the validation error and changes neither collection nor file, *)
(* whether or not a task has index i.                                      *)
C14_StatusIsUpdate ==
    /\ [](\A i \in IndexArgs :
            /\ \A c \in MarkCommands :
                  status(tasks, i, c, clock)
                      = update_task(tasks, i, [status |-> StatusOf(c)], clock)
            /\ \A c \in Commands \ MarkCommands :
                  LET r == status(tasks, i, c, clock)
                  IN  /\ r.exc = "ValueError"
                      /\ r.msg = "Invalid status command"
                      /\ r.tasks = tasks)
    /\ [][ret'.msg = "Invalid status command" =>
            (tasks' = tasks /\ store' = store)]_vars

\* an unknown command was refused while the collection held a task
C14_Witness ==
    /\ ret.exc = "ValueError"
    /\ ret.msg = "Invalid status command"
    /\ Len(tasks) = 1
    /\ store = save_tasks(tasks)

(* C15: on an existing task, status mark-done followed by status mark-todo *)
(* leaves the task with status todo, and each of the two calls leaves      *)
(* updatedAt strictly greater than it was before the call, also when the   *)
(* calls fall in the same second.                                          *)
C15_MarkDoneMarkTodo ==
    /\ [](\A i \in IndexArgs :
            i \in Indices(tasks) =>
                \A now \in clock..MaxClock :
                    LET r1 == status(tasks, i, "mark-done", clock)
                        r2 == status(r1.tasks, i, "mark-todo", now)
                    IN  r2.exc = "none" /\ TaskAt(r2.tasks, i).status = todo)
    /\ [][\A i \in IndexArgs, c \in {"mark-done", "mark-todo"} :
            (Status(i, c) /\ ret'.exc = "none") =>
                TaskAt(tasks', i).updatedAt > TaskAt(tasks, i).updatedAt]_vars

(* C16: from each of todo, in-progress, done a task reaches each of the    *)
(* three by one status call and by one update call on it, so no status is  *)
(* terminal; and add, delete and load leave every task that stays in the   *)
(* collection with the status it had.                                      *)
C16_StatusMachine ==
    /\ \A k \in 1..Len(tasks) :
          tasks[k].status \in ValidStatuses =>
              \A v \in ValidStatuses :
                  /\ \E c \in MarkCommands :
                        LET r == status(tasks, tasks[k].index, c, clock)
                        IN  r.exc = "none" /\ r.tasks[k].status = v
                  /\ LET r == update_task(tasks, tasks[k].index,
                                          [status |-> v], clock)
                     IN  r.exc = "none" /\ r.tasks[k].status = v
    /\ \A d \in DescArgs, s \in StatusArgs :
          LET r == add_task(tasks, d, s, nextId, clock)
          IN  /\ Len(r.tasks) >= Len(tasks)
              /\ \A k \in 1..Len(tasks) :
                    /\ r.tasks[k].id = tasks[k].id
                    /\ r.tasks[k].status = tasks[k].status
    /\ \A i \in IndexArgs :
          LET r == delete_task(tasks, i)
          IN  \A j \in 1..Len(r.tasks) :
                  \E k \in 1..Len(tasks) :
                      /\ tasks[k].id = r.tasks[j].id
                      /\ tasks[k].status = r.tasks[j].status
    /\ alive =>
          LET l == Loaded(store, nextId, clock)
          IN  /\ l.exc = "none"
              /\ Len(l.tasks) = Len(tasks)
              /\ \A k \in 1..Len(tasks) :
                    /\ l.tasks[k].id = tasks[k].id
                    /\ l.tasks[k].status = tasks[k].status

\* two tasks, the first in progress and the second done, both by a call
\* made after the second they were created in
C16_Witness ==
    /\ Len(tasks) = 2
    /\ tasks[1].status = in_progress
    /\ tasks[2].status = done
    /\ tasks[1].updatedAt > tasks[1].createdAt
    /\ tasks[2].updatedAt > tasks[2].createdAt
    /\ ret.exc = "none"

\* the positions in ts of the tasks whose status is f
Matching(ts, f) == {k \in 1..Len(ts) : ts[k].status = f}

(* C17: list_by_arg(filter) returns the tasks whose status equals the      *)
(* filter, each once and in the order of the collection, and an empty list *)
(* when there is none; the call changes neither collection nor file.       *)
C17_ListByStatus ==
    /\ [](\A f \in Filters :
            LET r == list_by_arg(tasks, f)
                P == Matching(tasks, f)
            IN  /\ Len(r) = Cardinality(P)
                /\ \A j \in 1..Len(r) :
                      \E k \in P :
                          /\ r[j] = tasks[k]
                          /\ Cardinality({m \in P : m < k}) = j - 1)
    /\ [][\A f \in Filters :
            List(f) => (tasks' = tasks /\ store' = store /\ ret'.exc = "none")
         ]_vars

\* three tasks, the first done and the two after it not: the filter todo
\* has two tasks to return, the filter done has one
C17_Witness ==
    /\ alive
    /\ Len(tasks) = 3
    /\ tasks[1].status = done
    /\ tasks[2].status = todo
    /\ tasks[3].status = todo
    /\ ret.exc = "none"

(* C18: constructing a Manager on, or calling load with, a file whose      *)
(* content is not valid JSON raises nothing, leaves the collection empty   *)
(* and rewrites the file as an empty array, whatever tasks the Manager     *)
(* held before.                                                            *)
C18_InvalidStoreReset ==
    [][(store.kind = "invalid" /\ (Construct \/ Load)) =>
          /\ alive'
          /\ ret'.exc = "none"
          /\ tasks' = <<>>
          /\ store' = EmptyArray]_vars

\* a Manager that had added a task holds none, on a file holding an empty
\* array, and no call has raised
C18_Witness ==
    /\ alive
    /\ tasks = <<>>
    /\ store = EmptyArray
    /\ maxAssigned >= 1
    /\ ret.exc = "none"

\* the content of the file is malformed: not JSON, or JSON that is not an
\* array of records with description and status ({} is read as no record)
Malformed(st) ==
    \/ st.kind \in {"invalid", "nonarray"}
    \/ /\ st.kind = "array"
       /\ \E k \in 1..Len(st.recs) :
             ~({"description", "status"} \subseteq DOMAIN st.recs[k])

(* C19: load on a file with malformed content of any kind, invalid text or *)
(* valid JSON that is not an array of task records, raises nothing, leaves *)
(* the collection empty and overwrites the file with an empty array.       *)
C19_MalformedStoreReset ==
    [][(Malformed(store) /\ (Construct \/ Load)) =>
          /\ ret'.exc = "none"
          /\ tasks' = <<>>
          /\ store' = EmptyArray]_vars

(* C20: load of an array whose records all have description and status     *)
(* gives one task per record, in the order of the file, with the record's  *)
(* description and status; a record without index gets index 0, one        *)
(* without id an id generated by this load, and one without timestamps the *)
(* time of the load as createdAt and updatedAt.                            *)
C20_LoadDefaults ==
    [][(store.kind = "array" /\ ~Malformed(store) /\ (Construct \/ Load)) =>
          /\ ret'.exc = "none"
          /\ Len(tasks') = Len(store.recs)
          /\ \A k \in 1..Len(store.recs) :
                LET r == store.recs[k]
                    t == tasks'[k]
                IN  /\ t.description = r.description
                    /\ t.status = r.status
                    /\ "index" \notin DOMAIN r => t.index = 0
                    /\ "id" \notin DOMAIN r =>
                          /\ t.id >= nextId
                          /\ t.id < nextId'
                          /\ \A j \in 1..Len(tasks') : j # k => tasks'[j].id # t.id
                    /\ {"createdAt", "updatedAt"} \cap DOMAIN r = {} =>
                          /\ t.createdAt = strftime(clock)
                          /\ t.updatedAt = strftime(clock)]_vars

\* a Manager loaded, in a later second than the first, a file whose one
\* record has description and status only
C20_Witness ==
    /\ alive
    /\ store.kind = "array"
    /\ Len(store.recs) = 1
    /\ DOMAIN store.recs[1] = {"description", "status"}
    /\ Len(tasks) = 1
    /\ tasks[1].index = 0
    /\ tasks[1].createdAt = 1
    /\ tasks[1].updatedAt = 1

\* ts is what load_tasks gave on the file as it is now, at some time up to
\* now and with some id uuid4 had not returned before
IsLoadOf(ts, st) ==
    \E id \in 1..nextId, now \in 0..clock :
        LET l == Loaded(st, id, now)
        IN  l.exc = "none" /\ l.store = st /\ l.tasks = ts

(* C21: load on a Manager that holds what a load of the file gave, the     *)
(* file being the same, replaces the collection: it has one task per       *)
(* record of the file and is equal to the collection before the call.      *)
C21_LoadIdempotent ==
    [][(store.kind = "array" /\ IsLoadOf(tasks, store) /\ Load) =>
          /\ ret'.exc = "none"
          /\ store' = store
          /\ Len(tasks') = Len(store.recs)
          /\ tasks' = tasks]_vars

(* C22: constructing a Manager where no file exists, with or without its   *)
(* directory, creates the file holding an empty array and leaves the       *)
(* collection empty.                                                       *)
C22_AbsentStoreCreated ==
    [][(store.kind \in {"absent", "nodir"} /\ Construct) =>
          /\ alive'
          /\ ret'.exc = "none"
          /\ store' = EmptyArray
          /\ tasks' = <<>>]_vars

\* a Manager exists on a file holding an empty array, it holds no task and
\* no id has been generated
C22_Witness ==
    /\ alive
    /\ store = EmptyArray
    /\ tasks = <<>>
    /\ nextId = 1
    /\ maxAssigned = 0
    /\ ret.exc = "none"

\* this step is a call whose write failed
WriteFailed ==
    \/ AddFailing(<<"a">>, todo)
    \/ \E i \in IndexArgs : DeleteFailing(i)
    \/ \E i \in IndexArgs : UpdateFailing(i, [status |-> done])

\* the collection one of the calls leaves when it returns
MutatedTo(ts) ==
    \/ ts = add_task(tasks, <<"a">>, todo, nextId, clock).tasks
    \/ \E i \in IndexArgs \cap Indices(tasks) :
          \/ ts = delete_task(tasks, i).tasks
          \/ ts = update_task(tasks, i, [status |-> done], clock).tasks

(* C23: when the write of the file fails in add, delete, update or status, *)
(* the call raises a storage error instead of returning a task, and the    *)
(* collection is left as the call changed it: the added task is in it, the *)
(* deleted task is not, the updated fields are updated; the file has not   *)
(* followed, so a collection that changed is ahead of a file that held it. *)
C23_WriteFailureSurfaced ==
    [][WriteFailed =>
          /\ ret'.exc = "RuntimeError"
          /\ MutatedTo(tasks')
          /\ (store = save_tasks(tasks) /\ tasks' # tasks)
                => store' # save_tasks(tasks')]_vars

\* an add whose write failed left a second task in the collection and the
\* file with the first only
C23_Witness ==
    /\ alive
    /\ ret.exc = "RuntimeError"
    /\ ret.msg = "Failed to add task"
    /\ Len(tasks) = 2
    /\ store.kind = "array"
    /\ Len(store.recs) = 1

(* C24: when the process is killed at any point of a call, the point       *)
(* between the truncation of the file and the end of the write included,   *)
(* the file holds what it held before the call or the complete output of a *)
(* save, never an empty or partial text.                                   *)
C24_KillLeavesCompleteSave ==
    [][(alive /\ ~alive') => (store' = store \/ store'.kind = "array")]_vars

(* C25: from an absent or empty store the collection is in creation order  *)
(* and strictly increasing by index in list order, so the index of the     *)
(* last task is the greatest and the index add computes from the last task *)
(* is the greatest index plus 1.                                           *)
C25_CreationOrder ==
    /\ \A i, j \in 1..Len(tasks) :
          i < j => /\ tasks[i].index < tasks[j].index
                   /\ tasks[i].id < tasks[j].id
                   /\ tasks[i].createdAt <= tasks[j].createdAt
    /\ tasks # <<>> => tasks[Len(tasks)].index = MaxIndex(tasks)
    /\ NextIndex(tasks) = MaxIndex(tasks) + 1

\* two tasks, created in different seconds, both updated since
C25_Witness ==
    /\ alive
    /\ Len(tasks) = 2
    /\ tasks[1].createdAt < tasks[2].createdAt
    /\ tasks[1].status = done
    /\ tasks[2].status = done
    /\ store = save_tasks(tasks)

(* -------------------- two processes on one store ---------------------- *)

(* task_tracker.py constructs its Manager when the module is loaded, so    *)
(* every run of the command line is a process with a Manager of its own on *)
(* the same json_file.  tasks is the collection of the first process,      *)
(* other.tasks the one of the second; each was read in its own __init__.   *)

\* the ids of the records of the store
StoredIds(st) == {st.recs[k].id : k \in 1..Len(st.recs)}

\* Manager(json_file) in the second process
ConstructOther ==
    LET l == Loaded(store, nextId, clock)
    IN  /\ l.nextId <= MaxId + 1
        /\ store' = l.store
        /\ other' = [alive |-> l.exc = "none",
                     tasks |-> IF l.exc = "none" THEN l.tasks ELSE <<>>]
        /\ nextId' = l.nextId
        /\ ret' = [exc |-> l.exc, msg |-> ""]
        /\ UNCHANGED <<alive, tasks, clock, maxAssigned, prompt>>

\* a save that kept the records of the file the saving Manager never loaded
FinishOtherMerging(r) ==
    /\ other' = [other EXCEPT !.tasks = r.tasks]
    /\ store' = IF r.exc = "none"
                THEN save_tasks(r.tasks \o
                        SelectSeq(tasks,
                                  LAMBDA t : /\ t.id \in StoredIds(store)
                                             /\ t.id \notin
                                                  {other.tasks[k].id :
                                                     k \in 1..Len(other.tasks)}))
                ELSE store
    /\ ret' = [exc |-> r.exc, msg |-> r.msg]

\* the end of a mutating call of the second process with result r:
\* save_tasks opens the file with 'w' and dumps its own self.tasks
FinishOther(r) ==
    /\ other' = [other EXCEPT !.tasks = r.tasks]
    /\ store' = IF r.exc = "none" THEN save_tasks(r.tasks) ELSE store
    /\ ret' = [exc |-> r.exc, msg |-> r.msg]

\* manager.add_task(description, status) in the second process
AddOther(description, status_) ==
    /\ other.alive
    /\ LET r == add_task(other.tasks, description, status_, nextId, clock)
       IN  /\ r.exc = "none" => (nextId <= MaxId /\ Len(other.tasks) < MaxTasks)
           /\ FinishOther(r)
           /\ nextId' = IF r.exc = "none" THEN nextId + 1 ELSE nextId
           /\ maxAssigned' = IF r.exc = "none" /\ r.task.index > maxAssigned
                             THEN r.task.index ELSE maxAssigned
    /\ UNCHANGED <<alive, tasks, clock, prompt>>

\* manager.delete_task(task_index) in the second process
DeleteOther(task_index) ==
    /\ other.alive
    /\ FinishOther(delete_task(other.tasks, task_index))
    /\ UNCHANGED <<alive, tasks, clock, nextId, maxAssigned, prompt>>

\* manager.update_task(task_index, **kwargs) in the second process
UpdateOther(task_index, kwargs) ==
    /\ other.alive
    /\ FinishOther(update_task(other.tasks, task_index, kwargs, clock))
    /\ UNCHANGED <<alive, tasks, clock, nextId, maxAssigned, prompt>>

\* the calls of the two processes with one argument each, at one instant
NextTwo ==
    \/ Construct
    \/ ConstructOther
    \/ Add(<<"a">>, todo)
    \/ \E i \in IndexArgs : Delete(i)
    \/ \E i \in IndexArgs : Update(i, [status |-> done])
    \/ AddOther(<<"a">>, todo)
    \/ \E i \in IndexArgs : DeleteOther(i)
    \/ \E i \in IndexArgs : UpdateOther(i, [status |-> done])

SpecTwo == Init /\ [][NextTwo]_vars

\* ts is base after one successful add
OneAddAway(ts, base) ==
    /\ Len(ts) = Len(base) + 1
    /\ SubSeq(ts, 1, Len(base)) = base
    /\ ts[Len(ts)].index = NextIndex(base)

(* C26: when the second process mutates after the first one saved, the     *)
(* store afterwards is the collection of the second process, computed from *)
(* what it had loaded: a task the first process added since is absent from *)
(* the store, a task it deleted or updated is back as the second process   *)
(* holds it; when both processes add to the same loaded collection, both   *)
(* new tasks have the same index.                                          *)
C26_LastWriterWins ==
    [][ /\ \A i \in IndexArgs :
             /\ (DeleteOther(i) /\ ret'.exc = "none") =>
                    store' = save_tasks(delete_task(other.tasks, i).tasks)
             /\ (UpdateOther(i, [status |-> done]) /\ ret'.exc = "none") =>
                    store' = save_tasks(update_task(other.tasks, i,
                                            [status |-> done], clock).tasks)
        /\ (AddOther(<<"a">>, todo) /\ ret'.exc = "none") =>
             /\ store' = save_tasks(add_task(other.tasks, <<"a">>, todo,
                                             nextId, clock).tasks)
             /\ \A k \in 1..Len(tasks) :
                   (\A j \in 1..Len(other.tasks) :
                        other.tasks[j].id # tasks[k].id)
                   => tasks[k].id \notin StoredIds(store')
             /\ OneAddAway(tasks, other.tasks) =>
                   other'.tasks[Len(other'.tasks)].index
                       = tasks[Len(tasks)].index ]_vars

\* both processes added to the empty collection they had loaded: the store
\* holds the task of the second only, and both tasks have index 1
C26_Witness ==
    /\ alive /\ other.alive
    /\ Len(tasks) = 1 /\ Len(other.tasks) = 1
    /\ tasks[1].id # other.tasks[1].id
    /\ tasks[1].index = other.tasks[1].index
    /\ store = save_tasks(other.tasks)
    /\ tasks[1].id \notin StoredIds(store)

(* -------------------------- the command line -------------------------- *)

(* One run of task_tracker.py: the module constructs its Manager, argparse *)
(* reads the command and its handler calls the Manager.  ret.msg holds the *)
(* line a handler prints when it catches or reports something itself.      *)

no_ == <<"n", "o">>
yes == <<"y", "e", "s">>

\* choices=['todo', 'in-progress', 'done'] of -s/--status
StatusChoices == {todo, in_progress, done}

\* the parsed arguments of 'add <task> [-s status]' and of
\* 'update <task_index> <task> [-s status]': options holds status when -s
\* was given, and argparse fills in default='todo' when it was not
parse_args(task_index, task, options) ==
    [task_index |-> task_index,
     task |-> task,
     status |-> IF "status" \in DOMAIN options THEN options.status ELSE todo]

\* an update handler that passes the description alone
update_kwargs_description_only(args) == [description |-> args.task]

\* the keyword arguments of the update handler:
\* update_task(args.task_index, description=args.task, status=args.status)
update_kwargs(args) == [description |-> args.task, status |-> args.status]

\* the process starts: manager = Manager()
CliStart ==
    /\ prompt = <<>>
    /\ Construct

\* task-cli add <task> [-s status]
CliAdd(task, options) ==
    /\ prompt = <<>>
    /\ LET args == parse_args(0, task, options)
       IN  Add(args.task, args.status)

\* task-cli update <task_index> <task> [-s status]
CliUpdate(task_index, task, options) ==
    /\ prompt = <<>>
    /\ LET args == parse_args(task_index, task, options)
       IN  Update(args.task_index, update_kwargs(args))

\* task-cli delete <task_index>, up to the prompt: the handler looks the
\* task up itself and returns without asking when it is not there
CliDelete(task_index) ==
    /\ alive
    /\ prompt = <<>>
    /\ IF \E k \in 1..Len(tasks) : tasks[k].index = task_index
       THEN /\ prompt' = <<task_index>>
            /\ ret' = [exc |-> "none", msg |-> ""]
       ELSE /\ prompt' = <<>>
            /\ ret' = [exc |-> "none", msg |-> "Error: No task found with ID"]
    /\ UNCHANGED <<store, alive, tasks, clock, nextId, maxAssigned, other>>

\* _confirm_delete with an empty answer taken as yes
confirmation_default_yes(answer) ==
    LET c == lower(strip(answer))
    IN  IF c \in {<<"y">>, yes, <<>>} THEN "yes"
        ELSE IF c \in {<<"n">>, no_} THEN "no"
        ELSE "again"

\* _confirm_delete, one answer: input(...).strip().lower() is y or yes for
\* True, n, no or empty for False, and anything else asks again
confirmation(answer) ==
    LET c == lower(strip(answer))
    IN  IF c \in {<<"y">>, yes} THEN "yes"
        ELSE IF c \in {<<"n">>, no_, <<>>} THEN "no"
        ELSE "again"

\* the user answers the prompt
CliAnswer(answer) ==
    /\ alive
    /\ prompt # <<>>
    /\ LET c == confirmation(answer)
       IN  CASE c = "yes" ->
                    /\ Finish(delete_task(tasks, prompt[1]))
                    /\ prompt' = <<>>
             [] c = "no" ->
                    /\ ret' = [exc |-> "none",
                               msg |-> "Delete operation cancelled."]
                    /\ prompt' = <<>>
                    /\ UNCHANGED <<store, tasks>>
             [] OTHER ->
                    /\ ret' = [exc |-> "none",
                               msg |-> "Please enter 'y' for yes or 'n' for no."]
                    /\ UNCHANGED <<store, tasks, prompt>>
    /\ UNCHANGED <<alive, clock, nextId, maxAssigned, other>>

\* the input ends at the prompt: input raises EOFError, the handler's
\* except Exception prints it and delete_task is not called
CliEndOfInput ==
    /\ alive
    /\ prompt # <<>>
    /\ prompt' = <<>>
    /\ ret' = [exc |-> "none", msg |-> "Error: EOF when reading a line"]
    /\ UNCHANGED <<store, alive, tasks, clock, nextId, maxAssigned, other>>

\* answers at the prompt: yes and no in two spellings, with blanks and
\* capitals, empty ones, and one that is neither
Answers ==
    { <<"y">>, <<" ", "Y", "E", "S">>, <<"n">>, <<"N", "o", " ">>,
      <<>>, <<" ">>, <<"o", "k">> }

\* [-s status] of add and update: not given, or one of the choices
Options == {<<>>, [status |-> done]}

NextCli ==
    \/ CliStart
    \/ ConstructOther
    \/ \E o \in Options : CliAdd(<<"a">>, o)
    \/ \E i \in IndexArgs, o \in Options : CliUpdate(i, <<"b">>, o)
    \/ \E i \in IndexArgs : CliDelete(i)
    \/ \E a \in Answers : CliAnswer(a)
    \/ CliEndOfInput

SpecCli == Init /\ [][NextCli]_vars

(* C27: the update command passes a description and a status in every      *)
(* case, the status being todo when -s is not given; so after              *)
(* 'update <index> <description>' without -s the task has that description *)
(* and the status todo, whatever its status was.                           *)
C27_UpdateResetsStatus ==
    /\ [](\A i \in IndexArgs, o \in Options :
            LET args == parse_args(i, <<"b">>, o)
            IN  /\ DOMAIN update_kwargs(args) = {"description", "status"}
                /\ update_kwargs(args).status \in StatusChoices
                /\ o = <<>> => update_kwargs(args).status = todo)
    /\ [][\A i \in IndexArgs :
            (CliUpdate(i, <<"b">>, <<>>) /\ ret'.exc = "none") =>
                \E k \in 1..Len(tasks) :
                    /\ tasks[k].index = i
                    /\ tasks'[k].status = todo
                    /\ tasks'[k].description = <<"b">>
                    /\ store' = save_tasks(tasks')]_vars

\* a task the second process loaded as done has been updated without -s
\* by the first: it is todo now
C27_Witness ==
    /\ alive /\ other.alive
    /\ Len(tasks) = 1 /\ Len(other.tasks) = 1
    /\ tasks[1].id = other.tasks[1].id
    /\ other.tasks[1].status = done
    /\ other.tasks[1].description = <<"a">>
    /\ tasks[1].status = todo
    /\ tasks[1].description = <<"b">>
    /\ store = save_tasks(tasks)

(* C28: the delete command calls delete_task only for a task it found and  *)
(* after an answer of y or yes; with an absent index it shows no prompt    *)
(* and changes nothing; on n, no or an empty answer the collection and the *)
(* store stay as they were; any other answer leaves the prompt open and    *)
(* the state unchanged.                                                    *)
C28_DeleteNeedsConfirmation ==
    /\ [](prompt # <<>> =>
            /\ alive
            /\ \E k \in 1..Len(tasks) : tasks[k].index = prompt[1])
    /\ [][ /\ Len(tasks') < Len(tasks) =>
                /\ prompt # <<>>
                /\ \E a \in Answers :
                      /\ lower(strip(a)) \in {<<"y">>, yes}
                      /\ CliAnswer(a)
                /\ tasks' = delete_task(tasks, prompt[1]).tasks
                /\ store' = save_tasks(tasks')
           /\ \A i \in IndexArgs :
                (CliDelete(i) /\ i \notin Indices(tasks)) =>
                    /\ prompt' = <<>>
                    /\ UNCHANGED <<tasks, store>>
           /\ \A i \in IndexArgs : CliDelete(i) => UNCHANGED <<tasks, store>>
           /\ \A a \in Answers :
                CliAnswer(a) =>
                    LET c == lower(strip(a))
                    IN  /\ c \in {<<"n">>, no_, <<>>} =>
                              /\ prompt' = <<>>
                              /\ UNCHANGED <<tasks, store>>
                        /\ c \notin {<<"y">>, yes, <<"n">>, no_, <<>>} =>
                              UNCHANGED <<tasks, store, prompt>> ]_vars

\* the task that was added has been deleted after a prompt: nothing else
\* in the command line removes a task
C28_Witness ==
    /\ alive
    /\ prompt = <<>>
    /\ maxAssigned = 1
    /\ tasks = <<>>
    /\ store = EmptyArray
    /\ ret = [exc |-> "none", msg |-> ""]

====
